---- MODULE Spec2Model ----
(***************************************************************************)
(* Model of ticket_monitor_action.py: one scheduled run of main() after    *)
(* another, sharing nothing but the JSON state file.                       *)
(*                                                                         *)
(* Text is a sequence of one-character strings.  Environment variables are *)
(* strings, Unset standing for a variable that is not in os.environ.       *)
(* The state file is modelled by the kind of its content (StateFiles).     *)
(***************************************************************************)
EXTENDS Integers, Sequences, FiniteSets, TLC

\* ------------------------------------------------------------------ bounds
\* Number of consecutive runs of main() that are explored.
MaxRuns == 3

\* --------------------------------------------------------------------- text
UpperChars == <<"A","B","C","D","E","F","G","H","I","J","K","L","M","N","O","P","Q","R","S","T","U","V","W","X","Y","Z">>
LowerChars == <<"a","b","c","d","e","f","g","h","i","j","k","l","m","n","o","p","q","r","s","t","u","v","w","x","y","z">>

\* str.lower() on one character (ASCII letters; every other character of
\* the modelled texts is left alone by str.lower()).
LowerChar(c) ==
    IF \E i \in 1..Len(UpperChars) : UpperChars[i] = c
    THEN LowerChars[CHOOSE i \in 1..Len(UpperChars) : UpperChars[i] = c]
    ELSE c

\* str.upper() on one character, used only to build mixed-case inputs.
UpperChar(c) ==
    IF \E i \in 1..Len(LowerChars) : LowerChars[i] = c
    THEN UpperChars[CHOOSE i \in 1..Len(LowerChars) : LowerChars[i] = c]
    ELSE c

\* Mutant of Lower: the body is searched as received.
LowerSkipped(s) == s

\* response.text.lower()
Lower(s) == [i \in 1..Len(s) |-> LowerChar(s[i])]

\* Python's  phrase in html  : substring test.
Contains(hay, needle) ==
    \E i \in 0..(Len(hay) - Len(needle)) :
        SubSeq(hay, i + 1, i + Len(needle)) = needle

\* The three phrases of no_phrases, in the order of the list.
no_phrases ==
    << <<"s","o","r","r","y",","," ","w","e"," ","d","o","n","'","t"," ","c","u","r","r","e","n","t","l","y"," ","h","a","v","e"," ","a","n","y"," ","t","i","c","k","e","t","s">>,
       <<"n","o"," ","r","e","s","u","l","t","s"," ","f","o","u","n","d">>,
       <<"a","l","e","r","t","s"," ","n","o","t"," ","c","u","r","r","e","n","t","l","y"," ","a","v","a","i","l","a","b","l","e">> >>

\* A fetch outcome: what requests.get does for this run.  net = "exception"
\* is a transport error (timeout, DNS, connection reset); otherwise a
\* response with a status code.  body is the text the page holds at that
\* moment, observed by the program only through a response.
FetchOutcome(net, status, body) == [net |-> net, status |-> status, body |-> body]

\* check_tickets(url): TRUE when tickets appear to be available.
check_tickets(f) ==
    IF f.net = "exception" THEN FALSE
    ELSE IF f.status # 200 THEN FALSE
    ELSE ~ \E k \in 1..Len(no_phrases) : Contains(Lower(f.body), no_phrases[k])

\* ------------------------------------------------------------- environment
Unset == "<unset>"

\* os.environ.get(name): a missing variable is None, and None and "" are
\* both falsy.
EnvTruthy(v) == v # Unset /\ v # ""

\* int(os.environ.get("SMTP_PORT", "587")) returns a number for a missing
\* variable (the default) and for a decimal string, and raises ValueError
\* for anything else ("" included).
IntParses(v) == v \in {Unset, "587", "25"}

\* Values of the environment variables that are explored.
EventUrls == {Unset, "", "https://event"}
SmtpPorts == {Unset, "587", "abc"}
Settings  == {Unset, "set"}

\* The settings of one process.  The e-mail settings are: all four present,
\* exactly one missing, or none present.
Envs ==
    { [EVENT_URL |-> u, SMTP_PORT |-> p, SMTP_SERVER |-> m[1],
       SMTP_USERNAME |-> m[2], SMTP_PASSWORD |-> m[3], EMAIL_TO |-> m[4],
       SMS_PHONE |-> s] :
      u \in EventUrls, p \in SmtpPorts, s \in Settings,
      m \in { <<"set","set","set","set">>, <<Unset,"set","set","set">>,
              <<"set",Unset,"set","set">>, <<"set","set",Unset,"set">>,
              <<"set","set","set",Unset>>, <<Unset,Unset,Unset,Unset>> } }

\* Mutant of EventUrlMissing: the guard never triggers.
EventUrlNeverMissing(e) == FALSE

\* main, lines 185-186:  not event_url
EventUrlMissing(e) == ~ EnvTruthy(e.EVENT_URL)

\* ---------------------------------------------------------------- state file
\* Kinds of content of the state file.
\*   missing     no file at the path
\*   garbage     not valid JSON (an empty or truncated file included)
\*   rec_true    {"has_tickets": true}
\*   rec_false   {"has_tickets": false}
\*   obj_empty   {}  or an object without has_tickets
\*   fld_truthy  an object whose has_tickets is a truthy non-boolean ("no", 1)
\*   fld_falsy   an object whose has_tickets is a falsy non-boolean (null, 0)
\*   val_falsy   valid JSON, not an object, falsy (null, false, 0, [], "")
\*   val_truthy  valid JSON, not an object, truthy ([1], true, 5, "x")
StateFiles == {"missing", "garbage", "rec_true", "rec_false", "obj_empty",
               "fld_truthy", "fld_falsy", "val_falsy", "val_truthy"}

\* json.dump({"has_tickets": b}) as a file content.
Rec(b) == IF b THEN "rec_true" ELSE "rec_false"

\* load_state(path): None for a missing file, None when open() or
\* json.load() raises, else whatever json.load() returns.
load_state(f, readOk) ==
    IF f = "missing" THEN "None"
    ELSE IF ~ readOk THEN "None"
    ELSE IF f = "garbage" THEN "None"
    ELSE f

\* main, line 191:  load_state(state_file) or {}
OrEmptyDict(v) == IF v \in {"None", "val_falsy", "obj_empty"} THEN "obj_empty" ELSE v

\* main, line 192: state.get("has_tickets") raises AttributeError when
\* state is not a dict.
GetRaises(state) == state = "val_truthy"

\* main, line 192: the value of state.get("has_tickets").
GetHasTickets(state) ==
    CASE state = "rec_true"   -> "True"
      [] state = "rec_false"  -> "False"
      [] state = "fld_truthy" -> "truthy"
      [] state = "fld_falsy"  -> "falsy"
      [] OTHER                -> "None"

\* Python truth value of last_status.
Truthy(v) == v \in {"True", "truthy"}

\* Mutant of ShouldNotify: level-triggered.
ShouldNotifyLevel(has, last) == has

\* main, line 198:  has_tickets and not last_status
ShouldNotify(has, last) == has /\ ~ Truthy(last)

\* What send_email does before it opens the SMTP session: "raise" when
\* int() fails on SMTP_PORT (line 84, outside the try), "skip" when a
\* required setting is missing (lines 90-92), else "attempt".
send_email_path(e) ==
    IF ~ IntParses(e.SMTP_PORT) THEN "raise"
    ELSE IF ~ (EnvTruthy(e.SMTP_SERVER) /\ EnvTruthy(e.SMTP_USERNAME)
               /\ EnvTruthy(e.SMTP_PASSWORD) /\ EnvTruthy(e.EMAIL_TO))
         THEN "skip"
    ELSE "attempt"

\* Outcomes of the SMTP session of lines 101-105; every one but "sent" is
\* an exception caught at line 107.
SmtpOutcomes == {"connect_failed", "starttls_failed", "login_failed",
                 "sendmail_failed", "sent"}

\* Outcomes of the Textbelt POST of lines 118-127.
SmsOutcomes == {"request_failed", "success", "not_success"}

\* Outcomes of save_state: written; open() raised and the file is as it
\* was; the file was opened (and so truncated) and the write raised.
WriteOutcomes == {"ok", "open_failed", "write_failed"}

\* Mutant of save_state: always records false.
save_state_false(f, has, w) ==
    CASE w = "ok"           -> Rec(FALSE)
      [] w = "open_failed"  -> f
      [] w = "write_failed" -> "garbage"

\* save_state(path, {"has_tickets": has}): the file content afterwards.
save_state(f, has, w) ==
    CASE w = "ok"           -> Rec(has)
      [] w = "open_failed"  -> f
      [] w = "write_failed" -> "garbage"

\* --------------------------------------------------------------------- state
VARIABLES
    env,          \* os.environ of the running process
    file,         \* content of the state file
    pc,           \* position of the running process in main
    run,          \* number of the running process, 1..MaxRuns
    start_file,   \* content of the state file when the process started
    read_ok,      \* whether open()/read of the state file worked this run
    last_status,  \* main's last_status
    fetch,        \* what requests.get met in this run
    has_tickets,  \* main's has_tickets
    events,       \* calls and I/O of this run, in order
    email_result, \* how send_email ended
    sms_result,   \* how send_sms ended
    write_arg,    \* the content save_state was asked to write
    exit_code,    \* exit status of the process, -1 while it runs
    refFile,      \* state file of the same runs with every write succeeding
    nFail,        \* number of runs whose state write failed (capped at 2)
    allWrote,     \* every finished run reached save_state
    afterFail,    \* runs finished after the first failed write (capped at 2)
    diffOther,    \* notifications differed from the reference in a run other
                  \* than the one right after the first failed write
    streak,       \* consecutive runs, from a file holding true, whose check
                  \* returned true
    cleanStreak,  \* same, counting only runs whose read and write worked
    availFires,   \* notifications in the consecutive runs during which the
                  \* page showed availability and the state file read and
                  \* write worked
    cleanLen,     \* consecutive runs whose check returned true and whose
                  \* read and write worked
    cleanFires    \* notifications in those runs

hist == <<refFile, nFail, allWrote, afterFail, diffOther, streak, cleanStreak,
          availFires, cleanLen, cleanFires>>
proc == <<env, pc, run, start_file, read_ok, last_status, fetch, has_tickets,
          events, email_result, sms_result, write_arg, exit_code>>
vars == <<file, proc, hist>>

Range(s) == {s[i] : i \in 1..Len(s)}
Did(ev) == ev \in Range(events)
Count(ev) == Cardinality({i \in 1..Len(events) : events[i] = ev})
Min(a, b) == IF a < b THEN a ELSE b

\* No request made yet.
NoFetch == FetchOutcome("none", 0, <<>>)

\* ------------------------------------------------------------ page contents
AvailableBody == <<"<","h","t","m","l",">","2"," ","T","i","c","k","e","t","s"," ","a","v","a","i","l","a","b","l","e"," ","n","o","w","<","/","h","t","m","l",">">>
SorryBody == <<"S","o","r","r","y",","," ","w","e"," ","d","o","n","'","t"," ","c","u","r","r","e","n","t","l","y"," ","h","a","v","e"," ","a","n","y"," ","t","i","c","k","e","t","s"," ","a","v","a","i","l","a","b","l","e">>

\* Fetch outcomes explored in the runs of main.
MainFetches ==
    { FetchOutcome("exception", 0, AvailableBody),
      FetchOutcome("response", 503, AvailableBody),
      FetchOutcome("response", 200, AvailableBody),
      FetchOutcome("response", 200, SorryBody),
      FetchOutcome("response", 404, SorryBody) }

\* Character c is the letter l (given in lower case) in either case.
SameLetter(c, l) == c = l \/ c = UpperChar(l)

\* The text holds the phrase written in some mix of upper and lower case.
HoldsAnyCase(text, phrase) ==
    \E i \in 0..(Len(text) - Len(phrase)) :
        \A j \in 1..Len(phrase) : SameLetter(text[i + j], phrase[j])

\* The page shows tickets as available: none of the phrases is on it.
ShowsAvailability(body) ==
    ~ \E k \in 1..Len(no_phrases) : HoldsAnyCase(body, no_phrases[k])

\* ---------------------------------------------------------------------- Init
Init ==
    /\ env \in Envs
    /\ file \in StateFiles
    /\ pc = "start"
    /\ run = 1
    /\ start_file = file
    /\ read_ok = TRUE
    /\ last_status = "None"
    /\ fetch = NoFetch
    /\ has_tickets = FALSE
    /\ events = <<>>
    /\ email_result = "none"
    /\ sms_result = "none"
    /\ write_arg = "none"
    /\ exit_code = -1
    /\ refFile = file
    /\ nFail = 0
    /\ allWrote = TRUE
    /\ afterFail = 0
    /\ diffOther = FALSE
    /\ streak = 0
    /\ cleanStreak = 0
    /\ availFires = 0
    /\ cleanLen = 0
    /\ cleanFires = 0

\* Bookkeeping for a run that ends without reaching save_state (sys.exit
\* or an uncaught exception).  hasTrue: check_tickets ran and returned True.
EndWithoutWrite(hasTrue) ==
    /\ allWrote' = FALSE
    /\ UNCHANGED <<refFile, nFail, afterFail, diffOther>>
    /\ streak' = IF hasTrue /\ (streak > 0 \/ start_file = "rec_true")
                 THEN streak + 1 ELSE 0
    /\ cleanStreak' = 0
    /\ availFires' = 0
    /\ cleanLen' = 0
    /\ cleanFires' = 0

\* The same run on the reference file: the value of last_status, whether
\* the notification branch is entered, whether the run dies before saving.
RefState == OrEmptyDict(load_state(refFile, read_ok))
RefFired == ~ GetRaises(RefState) /\ ShouldNotify(has_tickets, GetHasTickets(RefState))
RefDies  == GetRaises(RefState) \/ (RefFired /\ send_email_path(env) = "raise")

\* Bookkeeping for a run that ends in save_state with write outcome w.
EndWithWrite(w) ==
    LET fired == Did("send_email")
        clean == has_tickets /\ read_ok /\ w = "ok"
    IN  /\ UNCHANGED allWrote
        /\ refFile' = IF RefDies THEN refFile ELSE save_state(refFile, has_tickets, "ok")
        /\ nFail' = Min(2, nFail + (IF w = "ok" THEN 0 ELSE 1))
        /\ afterFail' = IF nFail >= 1 THEN Min(2, afterFail + 1) ELSE 0
        /\ diffOther' = (diffOther \/ (fired # RefFired /\ ~ (nFail = 1 /\ afterFail = 0)))
        /\ streak' = IF has_tickets /\ (streak > 0 \/ start_file = "rec_true")
                     THEN streak + 1 ELSE 0
        /\ cleanStreak' = IF clean /\ (cleanStreak > 0 \/ start_file = "rec_true")
                          THEN cleanStreak + 1 ELSE 0
        /\ availFires' = IF ShowsAvailability(fetch.body) /\ read_ok /\ w = "ok"
                         THEN availFires + (IF fired THEN 1 ELSE 0) ELSE 0
        /\ cleanLen' = IF clean THEN cleanLen + 1 ELSE 0
        /\ cleanFires' = IF clean THEN cleanFires + (IF fired THEN 1 ELSE 0) ELSE 0

\* ------------------------------------------------------------------- actions
\* main, lines 185-188: the EVENT_URL check.
CheckEventUrl ==
    /\ pc = "start"
    /\ IF EventUrlMissing(env)
       THEN /\ pc' = "done"
            /\ exit_code' = 1
            /\ EndWithoutWrite(FALSE)
       ELSE /\ pc' = "load"
            /\ UNCHANGED <<exit_code, hist>>
    /\ UNCHANGED <<file, env, run, start_file, read_ok, last_status, fetch,
                   has_tickets, events, email_result, sms_result, write_arg>>

\* main, lines 190-192: load the previous state.  ok: open() and the read
\* of an existing file work (a missing file is not opened).
LoadState ==
    /\ pc = "load"
    /\ \E ok \in (IF file = "missing" THEN {TRUE} ELSE BOOLEAN) :
         LET state == OrEmptyDict(load_state(file, ok))
         IN  /\ read_ok' = ok
             /\ events' = Append(events, "read")
             /\ IF GetRaises(state)
                THEN /\ pc' = "done"
                     /\ exit_code' = 1
                     /\ UNCHANGED last_status
                     /\ EndWithoutWrite(FALSE)
                ELSE /\ pc' = "check"
                     /\ last_status' = GetHasTickets(state)
                     /\ UNCHANGED <<exit_code, hist>>
    /\ UNCHANGED <<file, env, run, start_file, fetch, has_tickets,
                   email_result, sms_result, write_arg>>

\* main, lines 194-198: fetch and classify the page, pick the branch.
CheckTickets ==
    /\ pc = "check"
    /\ \E f \in MainFetches :
         /\ fetch' = f
         /\ has_tickets' = check_tickets(f)
         /\ pc' = IF ShouldNotify(check_tickets(f), last_status) THEN "email" ELSE "save"
    /\ events' = Append(events, "get")
    /\ UNCHANGED <<file, env, run, start_file, read_ok, last_status,
                   email_result, sms_result, write_arg, exit_code, hist>>

\* main, line 206: send_email(subject, body).
SendEmail ==
    /\ pc = "email"
    /\ CASE send_email_path(env) = "raise" ->
              /\ events' = Append(events, "send_email")
              /\ email_result' = "raised"
              /\ pc' = "done"
              /\ exit_code' = 1
              /\ EndWithoutWrite(TRUE)
         [] send_email_path(env) = "skip" ->
              /\ events' = Append(events, "send_email")
              /\ email_result' = "skipped"
              /\ pc' = "sms"
              /\ UNCHANGED <<exit_code, hist>>
         [] send_email_path(env) = "attempt" ->
              /\ \E o \in SmtpOutcomes : email_result' = o
              /\ events' = events \o <<"send_email", "smtp">>
              /\ pc' = "sms"
              /\ UNCHANGED <<exit_code, hist>>
    /\ UNCHANGED <<file, env, run, start_file, read_ok, last_status, fetch,
                   has_tickets, sms_result, write_arg>>

\* main, line 207: send_sms(body).
SendSms ==
    /\ pc = "sms"
    /\ IF EnvTruthy(env.SMS_PHONE)
       THEN /\ \E o \in SmsOutcomes : sms_result' = o
            /\ events' = events \o <<"send_sms", "post">>
       ELSE /\ sms_result' = "skipped"
            /\ events' = Append(events, "send_sms")
    /\ pc' = "save"
    /\ UNCHANGED <<file, env, run, start_file, read_ok, last_status, fetch,
                   has_tickets, email_result, write_arg, exit_code, hist>>

\* main, line 210: save_state, then the process ends normally.
SaveState ==
    /\ pc = "save"
    /\ \E w \in WriteOutcomes :
         /\ file' = save_state(file, has_tickets, w)
         /\ EndWithWrite(w)
    /\ write_arg' = Rec(has_tickets)
    /\ events' = Append(events, "write")
    /\ pc' = "done"
    /\ exit_code' = 0
    /\ UNCHANGED <<env, run, start_file, read_ok, last_status, fetch,
                   has_tickets, email_result, sms_result>>

\* The scheduler starts the next process.
NextRun ==
    /\ pc = "done"
    /\ run < MaxRuns
    /\ env' \in Envs
    /\ run' = run + 1
    /\ pc' = "start"
    /\ start_file' = file
    /\ read_ok' = TRUE
    /\ last_status' = "None"
    /\ fetch' = NoFetch
    /\ has_tickets' = FALSE
    /\ events' = <<>>
    /\ email_result' = "none"
    /\ sms_result' = "none"
    /\ write_arg' = "none"
    /\ exit_code' = -1
    /\ UNCHANGED <<file, hist>>

Next ==
    \/ CheckEventUrl
    \/ LoadState
    \/ CheckTickets
    \/ SendEmail
    \/ SendSms
    \/ SaveState
    \/ NextRun

Spec == Init /\ [][Next]_vars

\* ------------------------------------------- check_tickets on its own inputs
\* Every letter in upper case.
Upper(s) == [i \in 1..Len(s) |-> UpperChar(s[i])]

\* Every other letter in upper case.
Alternate(s) == [i \in 1..Len(s) |-> IF i % 2 = 1 THEN UpperChar(s[i]) ELSE s[i]]

\* All but the last character.
Chop(s) == SubSeq(s, 1, Len(s) - 1)

\* Text put before and after the middle of a page.
Fillers == { <<>>, <<"<","p",">">>, <<"N","o"," ">>, <<"d">> }

\* Middles of a page: nothing, or a phrase as it is, in upper case, in
\* mixed case, or short of its last character.
Middles ==
    { <<>> } \cup
    UNION { { no_phrases[k], Upper(no_phrases[k]), Alternate(no_phrases[k]),
              Chop(no_phrases[k]) } : k \in 1..Len(no_phrases) }

Pages == { pre \o mid \o suf : pre \in Fillers, mid \in Middles, suf \in Fillers }

CheckInputs ==
    { FetchOutcome("exception", 0, b) : b \in Pages } \cup
    { FetchOutcome("response", st, b) : st \in {200, 404}, b \in Pages }

InitCheck ==
    /\ env = [EVENT_URL |-> "https://event", SMTP_PORT |-> Unset,
              SMTP_SERVER |-> Unset, SMTP_USERNAME |-> Unset,
              SMTP_PASSWORD |-> Unset, EMAIL_TO |-> Unset, SMS_PHONE |-> Unset]
    /\ file = "missing"
    /\ pc = "classify"
    /\ run = 1
    /\ start_file = file
    /\ read_ok = TRUE
    /\ last_status = "None"
    /\ fetch \in CheckInputs
    /\ has_tickets = FALSE
    /\ events = <<>>
    /\ email_result = "none"
    /\ sms_result = "none"
    /\ write_arg = "none"
    /\ exit_code = -1
    /\ refFile = file
    /\ nFail = 0
    /\ allWrote = TRUE
    /\ afterFail = 0
    /\ diffOther = FALSE
    /\ streak = 0
    /\ cleanStreak = 0
    /\ availFires = 0
    /\ cleanLen = 0
    /\ cleanFires = 0

\* check_tickets applied to the fetch outcome.
Classify ==
    /\ pc = "classify"
    /\ has_tickets' = check_tickets(fetch)
    /\ events' = Append(events, "get")
    /\ pc' = "classified"
    /\ UNCHANGED <<file, env, run, start_file, read_ok, last_status, fetch,
                   email_result, sms_result, write_arg, exit_code, hist>>

NextCheck == Classify

SpecCheck == InitCheck /\ [][NextCheck]_vars

\* -------------------------------------------------------------------- claims
\* EVENT_URL holds a URL (it is present and not empty).
UrlConfigured == env.EVENT_URL \notin {Unset, ""}

\* The run is over.
Done == pc = "done"

\* C1: in every run that gets past the EVENT_URL check, send_email and
\* send_sms are both invoked if and only if the loaded previous state is
\* false or absent and check_tickets returned true.
C1_EdgeTrigger ==
    (Done /\ UrlConfigured) =>
        ((Did("send_email") /\ Did("send_sms"))
            <=> (has_tickets /\ last_status \notin {"True", "truthy"}))

\* C2 (as stated): in consecutive runs that start from a persisted
\* has_tickets = true and whose check returns true, no notification fires
\* and the persisted state is true after each run.
C2_Idempotence ==
    (Done /\ streak >= 1) => (~ Did("send_email") /\ file = "rec_true")

\* C2 (amended): the same, for runs whose state file read and write both
\* succeed.
C2_IdempotenceClean ==
    (Done /\ cleanStreak >= 1) =>
        (~ Did("send_email") /\ ~ Did("send_sms") /\ file = "rec_true")

\* C2 witness: two such runs in a row have finished.
C2_Witness == Done /\ cleanStreak >= 2 /\ has_tickets /\ start_file = "rec_true"

\* C3: every run with EVENT_URL configured reads the state file once, before
\* the page check, and ends with one write attempt of {has_tickets: current}.
C3_TerminalPersist ==
    (Done /\ UrlConfigured) =>
        /\ Count("read") = 1
        /\ events[1] = "read"
        /\ Count("get") = 1
        /\ Count("write") = 1
        /\ events[Len(events)] = "write"
        /\ write_arg = Rec(has_tickets)

\* C4: whenever the notification fires and SMS_PHONE is configured, the SMS
\* POST is attempted, however the e-mail channel ended.
C4_ChannelIndependence ==
    (Done /\ Did("send_email") /\ env.SMS_PHONE \notin {Unset, ""}) => Did("post")

\* C5: the process exits with status 1 exactly when EVENT_URL is not
\* configured, and with status 0 otherwise.
C5_ExitCodes ==
    Done => /\ (exit_code = 1 <=> ~ UrlConfigured)
            /\ (UrlConfigured => exit_code = 0)

\* C6: with EVENT_URL not configured the run exits with status 1 before any
\* other action: no read, no GET, no e-mail, no SMS, no write, and the
\* state file is as it was.
C6_FatalMisconfiguration ==
    ~ UrlConfigured =>
        /\ pc \in {"start", "done"}
        /\ events = <<>>
        /\ file = start_file
        /\ write_arg = "none"
        /\ email_result = "none"
        /\ sms_result = "none"
        /\ fetch = NoFetch
        /\ (Done => exit_code = 1)

\* C6 witness: a run without EVENT_URL has ended after an earlier run saved
\* a state.
C6_Witness ==
    Done /\ ~ UrlConfigured /\ exit_code = 1 /\ run >= 2 /\ file = "rec_true"

\* C7: check_tickets returns true exactly when the GET gave a response, the
\* status is 200 and the body holds none of the phrases in any letter case.
C7_Classification ==
    pc = "classified" =>
        (has_tickets <=> (/\ fetch.net = "response"
                          /\ fetch.status = 200
                          /\ ShowsAvailability(fetch.body)))

\* C7 witness: a 200 response whose body holds a phrase only in a case
\* other than lower case was classified as not available.
C7_Witness ==
    /\ pc = "classified"
    /\ fetch.net = "response"
    /\ fetch.status = 200
    /\ ~ has_tickets
    /\ \A k \in 1..Len(no_phrases) : ~ Contains(fetch.body, no_phrases[k])

\* C8: when the state file is anything but a well-formed record, the run
\* goes on as from NotAvailable: it notifies exactly when check_tickets
\* returns true and then writes {has_tickets: current}.
C8_AbsentOrCorrupt ==
    (/\ Done
     /\ UrlConfigured
     /\ (start_file \notin {"rec_true", "rec_false", "obj_empty"} \/ ~ read_ok)) =>
        /\ Did("get")
        /\ Did("send_email") <=> has_tickets
        /\ write_arg = Rec(has_tickets)

\* C9: when the state write failed in exactly one run and succeeded in all
\* others, the notifications differ from those of the same runs without the
\* failure in no run but the one right after it, and from the end of that
\* run the persisted states are equal.
C9_LostWrite ==
    (Done /\ nFail = 1 /\ allWrote) =>
        /\ ~ diffOther
        /\ (afterFail >= 1 => file = refFile)

\* C10 (as stated): over consecutive runs during which the page shows
\* availability and the state file is read and written without failure,
\* fetches failing or not, at most one notification fires.
C10_NoRepeat == availFires <= 1

\* C10 (amended): over consecutive runs in which check_tickets returns true
\* and every state file read and write succeeds, at most one notification
\* fires.
C10_NoRepeatFetched == cleanFires <= 1

\* C10 witness: the first of at least two such runs notified.
C10_Witness == Done /\ cleanLen >= 2 /\ cleanFires = 1

====
